---- MODULE Spec2Model ----
(***************************************************************************)
(* The task stores of tom-samuel/task-manager-app:                         *)
(*   FlowTaskPro  (src/app-core.js, extended by src/app-views.js)          *)
(*   TaskManager  (src/script.js)                                          *)
(* Both keep an array of task objects in this.tasks, write it to           *)
(* localStorage as JSON after a mutation and render it into the DOM.       *)
(* The variable app says which of the two programs a behaviour runs.       *)
(***************************************************************************)
EXTENDS Integers, Sequences, FiniteSets, TLC

VARIABLES
    app,            \* "FlowTaskPro" or "TaskManager"
    tasks,          \* this.tasks, a JavaScript value: [type, items]
    stored,         \* the localStorage item under the app's tasks key
    now,            \* the clock: what Date.now() returns, in ms
    currentView,    \* FlowTaskPro.currentView
    currentFilter,  \* this.currentFilter
    currentSort,    \* FlowTaskPro.currentSort
    taskList,       \* what the element #taskList shows (a sequence of tasks)
    adds,           \* number of tasks addTask has created (numbers the tasks)
    failures,       \* number of localStorage.setItem calls that have thrown
    lastOp,         \* what the last handler did (a log, read by no handler)
    second          \* the store the page of TaskManager constructs after the
                    \* first one (window.taskManager)

vars == <<app, tasks, stored, now, currentView, currentFilter, currentSort,
          taskList, adds, failures, lastOp, second>>

----------------------------------------------------------------------------
(* Bounds of the model *)

\* tasks created by TaskManager.addTask in one behaviour
MaxAdds == 2
\* tasks of a collection given to getFilteredTasks or sortTasks directly
PureLen == 3
\* tasks created by FlowTaskPro.addTask in one behaviour (its collection
\* starts with the two seed tasks)
ProMaxAdds == 1
\* advances of the clock in one behaviour
MaxTicks == 1
\* storage writes that throw in one behaviour
MaxFailures == 1

\* the length bound of TaskManager.validateTask
MaxTextLen == 100

\* the first clock reading; Date.now() is far above the seed ids '1' and '2'
StartTime == 3
\* the last clock reading of a behaviour
EndTime == StartTime + MaxTicks

----------------------------------------------------------------------------
(* Text.  A string is a sequence of characters; " " and "\t" are white.    *)

WhiteSpace == {" ", "\t"}

RECURSIVE TrimStart(_)
TrimStart(s) ==
    IF s = <<>> THEN <<>>
    ELSE IF Head(s) \in WhiteSpace THEN TrimStart(Tail(s)) ELSE s

RECURSIVE TrimEnd(_)
TrimEnd(s) ==
    IF s = <<>> THEN <<>>
    ELSE IF s[Len(s)] \in WhiteSpace THEN TrimEnd(SubSeq(s, 1, Len(s) - 1)) ELSE s

\* String.prototype.trim
Trim(s) == TrimEnd(TrimStart(s))

Repeat(c, n) == [i \in 1..n |-> c]

\* what a user can type into #taskInput or the edit box of TaskManager
Texts ==
    { <<>>,
      <<" ", "\t">>,
      <<" ", "b", " ">>,
      Repeat("x", MaxTextLen),
      <<" ">> \o Repeat("x", MaxTextLen) \o <<" ">>,
      Repeat("x", MaxTextLen + 1) }

\* the texts without the long ones: what a user types into #taskInput of
\* FlowTaskPro, whose validateTask has no length bound
ProTexts == { <<>>, <<" ", "\t">>, <<" ", "b", " ">> }

Priorities == {"high", "medium", "low"}

\* a date field is <<>> for null or <<s>> for the string s
NullDate == <<>>
\* what handleAddTask reads from #dueDateInput (`value || null`)
DueDates == {NullDate}

----------------------------------------------------------------------------
(* JavaScript values held in this.tasks *)

Arr(s)   == [type |-> "array",  items |-> s]
JsNull   == [type |-> "null",   items |-> <<>>]
JsObject == [type |-> "object", items |-> <<>>]

IsArray(v) == v.type = "array"

Min(a, b) == IF a < b THEN a ELSE b

\* Array.prototype.filter is SelectSeq: a new array of the elements that pass

\* Array.prototype.unshift
Unshift(s, x) == <<x>> \o s

----------------------------------------------------------------------------
(* localStorage and JSON.                                                  *)
(* The item is absent (getItem returns null) or a text.  A text is the     *)
(* empty string, a text that is no JSON ("garbage"), the JSON texts "null" *)
(* and "{}", or the JSON text of an array of objects, each object being    *)
(* its set of <<key, value>> members.                                      *)

Absent      == [kind |-> "absent",  elems |-> <<>>]
EmptyText   == [kind |-> "empty",   elems |-> <<>>]
GarbageText == [kind |-> "garbage", elems |-> <<>>]
NullText    == [kind |-> "null",    elems |-> <<>>]
ObjectText  == [kind |-> "object",  elems |-> <<>>]

\* stored values the program did not write itself
ForeignItems == {Absent, EmptyText, GarbageText, NullText, ObjectText}

\* JSON.stringify of one task object: its members (none is undefined)
StringifyTask(t) == { <<k, t[k]>> : k \in DOMAIN t }

\* JSON.stringify(this.tasks) for an array of task objects
Stringify(items) ==
    [kind |-> "array", elems |-> [i \in 1..Len(items) |-> StringifyTask(items[i])]]

\* JSON.parse of one object
ParseTask(members) ==
    [k \in {m[1] : m \in members} |-> (CHOOSE m \in members : m[1] = k)[2]]

\* JSON.parse(text) raises a SyntaxError
ParseThrows(item) == item.kind = "garbage"

\* JSON.parse(text) for a text that parses
Parse(item) ==
    CASE item.kind = "null"   -> JsNull
      [] item.kind = "object" -> JsObject
      [] item.kind = "array"  ->
            Arr([i \in 1..Len(item.elems) |-> ParseTask(item.elems[i])])

\* `if (stored)`: null and the empty string are falsy
Truthy(item) == item.kind \notin {"absent", "empty"}

\* localStorage.setItem(key, text): ok = FALSE is a write that throws
\* (QuotaExceededError) and leaves the item as it was
SetItem(item, text, ok) == IF ok THEN text ELSE item

----------------------------------------------------------------------------
(* Tasks.  The field nth is a history field: it numbers the tasks in the   *)
(* order they entered the collection and is read by no handler.            *)

\* the seed collection of FlowTaskPro.loadTasks; t1, t2 are the two
\* readings `new Date()` of the two object literals.  The texts
\* 'Welcome to FlowTask Pro!' and 'Create project presentation' are written
\* "W" and "C", the date of getTomorrowDate() "tomorrow".
SeedTasks(t1, t2) ==
    << [id |-> "1", text |-> <<"W">>, completed |-> FALSE, priority |-> "high",
        dueDate |-> NullDate, createdAt |-> t1, project |-> "Inbox", nth |-> 0],
       [id |-> "2", text |-> <<"C">>, completed |-> FALSE, priority |-> "medium",
        dueDate |-> <<"tomorrow">>, createdAt |-> t2, project |-> "Work", nth |-> -1] >>

\* FlowTaskPro.loadTasks: [value, notes]
ProLoadTasks(item, t1, t2) ==
    IF ~Truthy(item) THEN [value |-> Arr(SeedTasks(t1, t2)), notes |-> <<>>]
    ELSE IF ParseThrows(item)
         THEN [value |-> Arr(<<>>), notes |-> <<"Error loading tasks">>]
         ELSE [value |-> Parse(item), notes |-> <<>>]

\* TaskManager.loadTasks: [value, notes]
TmLoadTasks(item) ==
    IF ~Truthy(item) THEN [value |-> Arr(<<>>), notes |-> <<>>]
    ELSE IF ParseThrows(item)
         THEN [value |-> Arr(<<>>), notes |-> <<>>]
         ELSE [value |-> Parse(item), notes |-> <<>>]

\* a faulty saveTasks that never reaches setItem (tests OneWritePerMutation)
SaveTasksSkipped(item, items, ok) ==
    [stored |-> item, notes |-> <<>>, failed |-> FALSE]

\* a faulty saveTasks whose catch block only logs to the console
\* (tests WriteFailureKept)
SaveTasksSilent(item, items, ok) ==
    [stored |-> SetItem(item, Stringify(items), ok), notes |-> <<>>, failed |-> ~ok]

\* saveTasks: [stored, notes, failed]
SaveTasks(item, items, ok) ==
    [stored |-> SetItem(item, Stringify(items), ok),
     notes  |-> IF ok THEN <<>> ELSE <<"Error saving tasks">>,
     failed |-> ~ok]

\* FlowTaskPro.validateTask: [ok, notes]
ProValidateTask(text) ==
    IF Trim(text) = <<>>
    THEN [ok |-> FALSE, notes |-> <<"Task cannot be empty">>]
    ELSE [ok |-> TRUE, notes |-> <<>>]

\* a faulty validateTask with `>=` for `>` (tests InvalidTextRejected)
TmValidateTaskOffByOne(text) ==
    IF Trim(text) = <<>>
    THEN [ok |-> FALSE, notes |-> <<"Task cannot be empty">>]
    ELSE IF Len(Trim(text)) >= MaxTextLen
         THEN [ok |-> FALSE, notes |-> <<"Task must be less than 100 characters">>]
         ELSE [ok |-> TRUE, notes |-> <<>>]

\* TaskManager.validateTask: [ok, notes]
TmValidateTask(text) ==
    IF Trim(text) = <<>>
    THEN [ok |-> FALSE, notes |-> <<"Task cannot be empty">>]
    ELSE IF Len(Trim(text)) > MaxTextLen
         THEN [ok |-> FALSE, notes |-> <<"Task must be less than 100 characters">>]
         ELSE [ok |-> TRUE, notes |-> <<>>]

\* Date.now().toString()
NewId(t) == ToString(t)

\* the object literal of FlowTaskPro.addTask
ProNewTask(text, priority, dueDate, project, t, n) ==
    [id |-> NewId(t), text |-> Trim(text), completed |-> FALSE,
     priority |-> priority, dueDate |-> dueDate, project |-> project,
     createdAt |-> t, nth |-> n]

\* a faulty object literal that keeps the text as typed (tests TextsTrimmed)
TmNewTaskRaw(text, t, n) ==
    [id |-> NewId(t), text |-> text, completed |-> FALSE,
     createdAt |-> t, nth |-> n]

\* the object literal of TaskManager.addTask
TmNewTask(text, t, n) ==
    [id |-> NewId(t), text |-> Trim(text), completed |-> FALSE,
     createdAt |-> t, nth |-> n]

----------------------------------------------------------------------------
(* The projection: getFilteredTasks, then sortTasks *)

ProFilters == {"all", "active", "completed", "high"}
TmFilters  == {"all", "active", "completed"}
Sorts      == {"newest", "oldest", "priority", "none"}
\* every view but the dashboard takes the same branch of the handlers
Views      == {"dashboard", "tasks"}

IsActive(t)    == ~t.completed
IsCompleted(t) == t.completed
IsHigh(t)      == t.priority = "high"

\* a faulty getFilteredTasks whose 'completed' case has no `break` and falls
\* through to the 'high' case (tests FilterIsExact)
ProGetFilteredTasksFallThrough(items, filter) ==
    CASE filter = "active"    -> [items |-> SelectSeq(items, IsActive), same |-> FALSE]
      [] filter = "completed" -> [items |-> SelectSeq(SelectSeq(items, IsCompleted), IsHigh),
                                  same |-> FALSE]
      [] filter = "high"      -> [items |-> SelectSeq(items, IsHigh),   same |-> FALSE]
      [] OTHER                -> [items |-> items,                     same |-> TRUE]

\* FlowTaskPro.getFilteredTasks: [items, same]; same says that the array
\* returned is this.tasks itself, not a new array
ProGetFilteredTasks(items, filter) ==
    CASE filter = "active"    -> [items |-> SelectSeq(items, IsActive),    same |-> FALSE]
      [] filter = "completed" -> [items |-> SelectSeq(items, IsCompleted), same |-> FALSE]
      [] filter = "high"      -> [items |-> SelectSeq(items, IsHigh),      same |-> FALSE]
      [] OTHER                -> [items |-> items,                      same |-> TRUE]

\* TaskManager.getFilteredTasks: [items, same]
TmGetFilteredTasks(items, filter) ==
    CASE filter = "active"    -> [items |-> SelectSeq(items, IsActive),    same |-> FALSE]
      [] filter = "completed" -> [items |-> SelectSeq(items, IsCompleted), same |-> FALSE]
      [] OTHER                -> [items |-> items,                      same |-> TRUE]

\* priorityOrder of sortTasks
PriorityOrder(p) == CASE p = "high" -> 3 [] p = "medium" -> 2 [] p = "low" -> 1

\* faulty comparators whose 'priority' case subtracts the wrong way round
\* (tests SortIsStableOrder)
CompareAscending(sort, a, b) ==
    CASE sort = "newest"   -> b.createdAt - a.createdAt
      [] sort = "oldest"   -> a.createdAt - b.createdAt
      [] sort = "priority" -> PriorityOrder(a.priority) - PriorityOrder(b.priority)

\* the comparators of sortTasks; the date strings of createdAt order as
\* their instants do
Compare(sort, a, b) ==
    CASE sort = "newest"   -> b.createdAt - a.createdAt
      [] sort = "oldest"   -> a.createdAt - b.createdAt
      [] sort = "priority" -> PriorityOrder(b.priority) - PriorityOrder(a.priority)

\* Array.prototype.sort(compare) is a stable sort: x goes before the first
\* element that compare puts after it
RECURSIVE InsertStable(_, _, _)
InsertStable(sorted, x, sort) ==
    IF sorted = <<>> THEN <<x>>
    ELSE IF Compare(sort, Head(sorted), x) > 0 THEN <<x>> \o sorted
    ELSE <<Head(sorted)>> \o InsertStable(Tail(sorted), x, sort)

RECURSIVE ArraySort(_, _)
ArraySort(s, sort) ==
    IF s = <<>> THEN <<>>
    ELSE InsertStable(ArraySort(SubSeq(s, 1, Len(s) - 1), sort), s[Len(s)], sort)

\* FlowTaskPro.sortTasks: the array it is given, after the call (sort()
\* sorts the array in place and returns it)
SortTasks(s, sort) ==
    IF sort \in {"newest", "oldest", "priority"} THEN ArraySort(s, sort) ELSE s

\* FlowTaskPro.renderTasks on this.tasks = items:
\* [items: this.tasks after it, list: what #taskList shows, same]
ProRenderTasks(items, filter, sort) ==
    LET f      == ProGetFilteredTasks(items, filter)
        sorted == SortTasks(f.items, sort)
    IN  [items |-> IF f.same THEN sorted ELSE items,
         list  |-> sorted,
         same  |-> f.same]

\* TaskManager.render
TmRender(items, filter) ==
    LET f == TmGetFilteredTasks(items, filter)
    IN  [items |-> items, list |-> f.items, same |-> f.same]

\* the tail of FlowTaskPro.addTask, toggleTask and deleteTask:
\* `if (this.currentView === 'dashboard') renderDashboard() else renderTasks()`
\* (renderDashboard leaves #taskList alone)
ProRefresh(items, view, filter, sort, list) ==
    IF view = "dashboard"
    THEN [items |-> items, list |-> list, rendered |-> FALSE, same |-> FALSE]
    ELSE LET r == ProRenderTasks(items, filter, sort)
         IN  [items |-> r.items, list |-> r.list, rendered |-> TRUE, same |-> r.same]

----------------------------------------------------------------------------
(* The log of the last handler (read by no handler).                       *)
(*   op        the handler                                                 *)
(*   result    "ok": it changed the collection as asked; "invalid": the    *)
(*             text failed validateTask; "absent": no task has the id;     *)
(*             "threw": it raised a TypeError                              *)
(*   returned  what the method returned                                    *)
(*   writes    calls of localStorage.setItem for the tasks                 *)
(*   saveFailed  such a call threw                                         *)
(*   notes     the messages given to showNotification, in order            *)
(*   rendered  the projection was computed (renderTasks / render)          *)
(*   pre       this.tasks when the projection was asked for                *)
(*   same      the projection returned this.tasks itself                   *)

Log(op, result, returned) ==
    [op |-> op, result |-> result, returned |-> returned,
     writes |-> 0, saveFailed |-> FALSE, notes |-> <<>>, rendered |-> FALSE,
     pre |-> <<>>, same |-> FALSE]

\* the log of a handler that saved (s: what saveTasks did) and then asked
\* for a refresh (r: what the refresh did) of the collection m
Done(op, result, returned, s, notes, r, m) ==
    [Log(op, result, returned) EXCEPT
        !.writes = 1, !.saveFailed = s.failed, !.notes = s.notes \o notes,
        !.rendered = r.rendered, !.pre = IF r.rendered THEN m ELSE <<>>,
        !.same = r.same]

\* a faulty lookup that falls back on the first task, as
\* `find(...) || this.tasks[0]` would (tests AbsentIdIsNoOp)
FindOrFirst(items, id) ==
    IF \E i \in 1..Len(items) : items[i].id = id
    THEN CHOOSE i \in 1..Len(items) :
            items[i].id = id /\ \A j \in 1..(i - 1) : items[j].id # id
    ELSE IF items = <<>> THEN 0 ELSE 1

\* index of the first task with this id (Array.prototype.find), 0 if none
Find(items, id) ==
    IF \E i \in 1..Len(items) : items[i].id = id
    THEN CHOOSE i \in 1..Len(items) :
            items[i].id = id /\ \A j \in 1..(i - 1) : items[j].id # id
    ELSE 0

\* ids a handler can be called with: those of the tasks, and one of no task
Ids == {tasks.items[i].id : i \in 1..Len(tasks.items)} \cup {"0"}

\* a storage that takes every write, and one that fails at most
\* MaxFailures writes
Sound == {TRUE}
Full  == IF failures < MaxFailures THEN BOOLEAN ELSE {TRUE}

\* what the clock can read after it read t: the same instant or a later one
After(t) == {t, Min(t + 1, EndTime)}

----------------------------------------------------------------------------
(* Construction *)

\* new FlowTaskPro() on the stored item: loadTasks, then init(), whose
\* renderDashboard raises a TypeError on a this.tasks that is no array and
\* whose renderTasks runs with currentFilter 'all' and currentSort 'newest'
ProConstruct(item, t1, t2) ==
    LET l == ProLoadTasks(item, t1, t2)
        r == ProRenderTasks(l.value.items, "all", "newest")
    IN  IF IsArray(l.value)
        THEN [tasks |-> Arr(r.items), list |-> r.list, threw |-> FALSE,
              notes |-> l.notes, pre |-> l.value.items, same |-> r.same]
        ELSE [tasks |-> l.value, list |-> <<>>, threw |-> TRUE,
              notes |-> l.notes, pre |-> <<>>, same |-> FALSE]

\* new TaskManager() on the stored item: loadTasks, then init(), whose
\* render raises a TypeError on a this.tasks that is no array
TmConstruct(item) ==
    LET l == TmLoadTasks(item)
        r == TmRender(l.value.items, "all")
    IN  IF IsArray(l.value)
        THEN [tasks |-> l.value, list |-> r.list, threw |-> FALSE,
              notes |-> l.notes, pre |-> l.value.items, same |-> r.same]
        ELSE [tasks |-> l.value, list |-> <<>>, threw |-> TRUE,
              notes |-> l.notes, pre |-> <<>>, same |-> FALSE]

Construct(a, item, t1, t2) ==
    IF a = "FlowTaskPro" THEN ProConstruct(item, t1, t2) ELSE TmConstruct(item)

ConstructLog(c) ==
    [Log("construct", IF c.threw THEN "threw" ELSE "ok", "undefined") EXCEPT
        !.notes = c.notes, !.rendered = ~c.threw, !.pre = c.pre, !.same = c.same]

\* the constructor reads the clock only to build the seed collection
ReadsClock(a, item) == a = "FlowTaskPro" /\ ~Truthy(item)

Apps == {"FlowTaskPro", "TaskManager"}

\* the second store of a page: its this.tasks and this.currentFilter;
\* shown says that the elements of #taskList are those of its last render,
\* so that their listeners call its methods; wrote says that it wrote the
\* stored item in the last event (a log, read by no handler)
Store2(items, filter, shown, wrote) ==
    [tasks |-> items, currentFilter |-> filter, shown |-> shown, wrote |-> wrote]

\* a program driven through the methods of one store has no second one
NoSecond == Store2(<<>>, "all", FALSE, FALSE)

InitOf(a) ==
    /\ app = a
    /\ stored \in ForeignItems
    /\ \E t2 \in (IF ReadsClock(app, stored) THEN After(StartTime)
                  ELSE {StartTime}) :
         LET c == Construct(app, stored, StartTime, t2)
         IN  /\ now = t2
             /\ tasks = c.tasks
             /\ taskList = c.list
             /\ lastOp = ConstructLog(c)
    /\ currentView = "dashboard"
    /\ currentFilter = "all"
    /\ currentSort = "newest"
    /\ adds = 0
    /\ failures = 0
    /\ second = NoSecond

Init == \E a \in Apps : InitOf(a)

\* the page is loaded again: a new store is constructed on the stored item
Reload ==
    /\ \E t1 \in (IF ReadsClock(app, stored) THEN After(now) ELSE {now}) :
       \E t2 \in (IF ReadsClock(app, stored) THEN After(t1) ELSE {now}) :
         LET c == Construct(app, stored, t1, t2)
         IN  /\ now' = t2
             /\ tasks' = c.tasks
             /\ taskList' = c.list
             /\ lastOp' = ConstructLog(c)
    /\ currentView' = "dashboard"
    /\ currentFilter' = "all"
    /\ currentSort' = "newest"
    /\ UNCHANGED <<app, second, stored, adds, failures>>

----------------------------------------------------------------------------
(* FlowTaskPro: the handlers.  ok says whether localStorage.setItem        *)
(* succeeds; a handler that does not reach saveTasks is taken with ok.     *)

\* handleAddTask -> addTask(text, priority, dueDate) with project = 'Inbox'
ProAddTask(text, priority, dueDate, ok) ==
    /\ app = "FlowTaskPro"
    /\ LET v == ProValidateTask(text)
       IN  IF ~v.ok
           THEN /\ ok
                /\ lastOp' = [Log("addTask", "invalid", "false") EXCEPT !.notes = v.notes]
                /\ UNCHANGED <<tasks, stored, now, taskList, adds, failures>>
           ELSE IF ~IsArray(tasks)
           THEN \* this.tasks.unshift raises a TypeError
                /\ ok
                /\ lastOp' = Log("addTask", "threw", "undefined")
                /\ UNCHANGED <<tasks, stored, now, taskList, adds, failures>>
           ELSE /\ adds < ProMaxAdds
                /\ \E t \in After(now) :
                     LET new == ProNewTask(text, priority, dueDate, "Inbox", t, adds + 1)
                         m   == Unshift(tasks.items, new)
                         s   == SaveTasks(stored, m, ok)
                         r   == ProRefresh(m, currentView, currentFilter, currentSort,
                                           taskList)
                     IN  /\ now' = t
                         /\ tasks' = Arr(r.items)
                         /\ stored' = s.stored
                         /\ taskList' = r.list
                         /\ failures' = failures + (IF s.failed THEN 1 ELSE 0)
                         /\ lastOp' = Done("addTask", "ok", "true", s,
                                           <<"Task added successfully!">>, r, m)
                /\ adds' = adds + 1
    /\ UNCHANGED <<app, second, currentView, currentFilter, currentSort>>

\* toggleTask(id)
ProToggleTask(id, ok) ==
    /\ app = "FlowTaskPro"
    /\ IF ~IsArray(tasks)
       THEN \* this.tasks.find raises a TypeError
            /\ ok
            /\ lastOp' = Log("toggleTask", "threw", "undefined")
            /\ UNCHANGED <<tasks, stored, taskList, failures>>
       ELSE LET i == Find(tasks.items, id)
            IN  IF i = 0
                THEN /\ ok
                     /\ lastOp' = Log("toggleTask", "absent", "undefined")
                     /\ UNCHANGED <<tasks, stored, taskList, failures>>
                ELSE LET m == [tasks.items EXCEPT ![i].completed = ~@]
                         s == SaveTasks(stored, m, ok)
                         r == ProRefresh(m, currentView, currentFilter, currentSort,
                                         taskList)
                     IN  /\ tasks' = Arr(r.items)
                         /\ stored' = s.stored
                         /\ taskList' = r.list
                         /\ failures' = failures + (IF s.failed THEN 1 ELSE 0)
                         /\ lastOp' = Done("toggleTask", "ok", "undefined", s, <<>>, r, m)
    /\ UNCHANGED <<app, second, now, currentView, currentFilter, currentSort, adds>>

\* deleteTask(id)
ProDeleteTask(id, ok) ==
    /\ app = "FlowTaskPro"
    /\ IF ~IsArray(tasks)
       THEN \* this.tasks.filter raises a TypeError
            /\ ok
            /\ lastOp' = Log("deleteTask", "threw", "undefined")
            /\ UNCHANGED <<tasks, stored, taskList, failures>>
       ELSE LET m == SelectSeq(tasks.items, LAMBDA t : t.id # id)
                s == SaveTasks(stored, m, ok)
                r == ProRefresh(m, currentView, currentFilter, currentSort, taskList)
            IN  /\ tasks' = Arr(r.items)
                /\ stored' = s.stored
                /\ taskList' = r.list
                /\ failures' = failures + (IF s.failed THEN 1 ELSE 0)
                /\ lastOp' = Done("deleteTask",
                                  IF Find(tasks.items, id) = 0 THEN "absent" ELSE "ok",
                                  "undefined", s, <<"Task deleted">>, r, m)
    /\ UNCHANGED <<app, second, now, currentView, currentFilter, currentSort, adds>>

\* a click on a .nav-item: showView(viewName)
ShowView(viewName) ==
    /\ app = "FlowTaskPro"
    /\ currentView' = viewName
    /\ UNCHANGED <<app, second, tasks, stored, now, currentFilter, currentSort, taskList,
                   adds, failures, lastOp>>

\* the filter control of the tasks view: it sets currentFilter and asks for
\* the projection again, as TaskManager.setFilter does
ProSetFilter(filter) ==
    /\ app = "FlowTaskPro"
    /\ currentView = "tasks"
    /\ currentFilter' = filter
    /\ IF ~IsArray(tasks)
       THEN /\ lastOp' = Log("setFilter", "threw", "undefined")
            /\ UNCHANGED <<tasks, taskList>>
       ELSE LET r == ProRenderTasks(tasks.items, filter, currentSort)
            IN  /\ tasks' = Arr(r.items)
                /\ taskList' = r.list
                /\ lastOp' = [Log("setFilter", "ok", "undefined") EXCEPT
                                 !.rendered = TRUE, !.pre = tasks.items, !.same = r.same]
    /\ UNCHANGED <<app, second, stored, now, currentView, currentSort, adds, failures>>

\* the sort control of the tasks view: it sets currentSort and asks for the
\* projection again
ProSetSort(sort) ==
    /\ app = "FlowTaskPro"
    /\ currentView = "tasks"
    /\ currentSort' = sort
    /\ IF ~IsArray(tasks)
       THEN /\ lastOp' = Log("setSort", "threw", "undefined")
            /\ UNCHANGED <<tasks, taskList>>
       ELSE LET r == ProRenderTasks(tasks.items, currentFilter, sort)
            IN  /\ tasks' = Arr(r.items)
                /\ taskList' = r.list
                /\ lastOp' = [Log("setSort", "ok", "undefined") EXCEPT
                                 !.rendered = TRUE, !.pre = tasks.items, !.same = r.same]
    /\ UNCHANGED <<app, second, stored, now, currentView, currentFilter, adds, failures>>

----------------------------------------------------------------------------
(* TaskManager: the handlers *)

\* the `this.render()` that ends the mutating methods of TaskManager
TmRefresh(items, filter) ==
    LET r == TmRender(items, filter)
    IN  [items |-> r.items, list |-> r.list, rendered |-> TRUE, same |-> r.same]

\* handleAddTask -> addTask(text)
TmAddTask(text, ok) ==
    /\ app = "TaskManager"
    /\ LET v == TmValidateTask(text)
       IN  IF ~v.ok
           THEN /\ ok
                /\ lastOp' = [Log("addTask", "invalid", "false") EXCEPT !.notes = v.notes]
                /\ UNCHANGED <<tasks, stored, now, taskList, adds, failures>>
           ELSE IF ~IsArray(tasks)
           THEN \* this.tasks.unshift raises a TypeError
                /\ ok
                /\ lastOp' = Log("addTask", "threw", "undefined")
                /\ UNCHANGED <<tasks, stored, now, taskList, adds, failures>>
           ELSE /\ adds < MaxAdds
                /\ \E t \in After(now) :
                     LET new == TmNewTask(text, t, adds + 1)
                         m   == Unshift(tasks.items, new)
                         s   == SaveTasks(stored, m, ok)
                         r   == TmRefresh(m, currentFilter)
                     IN  /\ now' = t
                         /\ tasks' = Arr(r.items)
                         /\ stored' = s.stored
                         /\ taskList' = r.list
                         /\ failures' = failures + (IF s.failed THEN 1 ELSE 0)
                         /\ lastOp' = Done("addTask", "ok", "true", s,
                                           <<"Task added successfully!">>, r, m)
                /\ adds' = adds + 1
    /\ UNCHANGED <<app, second, currentView, currentFilter, currentSort>>

\* toggleTask(id)
TmToggleTask(id, ok) ==
    /\ app = "TaskManager"
    /\ IF ~IsArray(tasks)
       THEN \* this.tasks.find raises a TypeError
            /\ ok
            /\ lastOp' = Log("toggleTask", "threw", "undefined")
            /\ UNCHANGED <<tasks, stored, taskList, failures>>
       ELSE LET i == Find(tasks.items, id)
            IN  IF i = 0
                THEN /\ ok
                     /\ lastOp' = Log("toggleTask", "absent", "undefined")
                     /\ UNCHANGED <<tasks, stored, taskList, failures>>
                ELSE LET m == [tasks.items EXCEPT ![i].completed = ~@]
                         s == SaveTasks(stored, m, ok)
                         r == TmRefresh(m, currentFilter)
                     IN  /\ tasks' = Arr(r.items)
                         /\ stored' = s.stored
                         /\ taskList' = r.list
                         /\ failures' = failures + (IF s.failed THEN 1 ELSE 0)
                         /\ lastOp' = Done("toggleTask", "ok", "undefined", s, <<>>, r, m)
    /\ UNCHANGED <<app, second, now, currentView, currentFilter, currentSort, adds>>

\* editTask(id, newText); its render is not followed by updateStats
TmEditTask(id, newText, ok) ==
    /\ app = "TaskManager"
    /\ LET v == TmValidateTask(newText)
       IN  IF ~v.ok
           THEN /\ ok
                /\ lastOp' = [Log("editTask", "invalid", "false") EXCEPT !.notes = v.notes]
                /\ UNCHANGED <<tasks, stored, taskList, failures>>
           ELSE IF ~IsArray(tasks)
           THEN \* this.tasks.find raises a TypeError
                /\ ok
                /\ lastOp' = Log("editTask", "threw", "undefined")
                /\ UNCHANGED <<tasks, stored, taskList, failures>>
           ELSE LET i == Find(tasks.items, id)
                IN  IF i = 0
                    THEN /\ ok
                         /\ lastOp' = Log("editTask", "absent", "false")
                         /\ UNCHANGED <<tasks, stored, taskList, failures>>
                    ELSE LET m == [tasks.items EXCEPT ![i].text = Trim(newText)]
                             s == SaveTasks(stored, m, ok)
                             r == TmRefresh(m, currentFilter)
                         IN  /\ tasks' = Arr(r.items)
                             /\ stored' = s.stored
                             /\ taskList' = r.list
                             /\ failures' = failures + (IF s.failed THEN 1 ELSE 0)
                             /\ lastOp' = Done("editTask", "ok", "true", s,
                                               <<"Task updated!">>, r, m)
    /\ UNCHANGED <<app, second, now, currentView, currentFilter, currentSort, adds>>

\* deleteTask(id)
TmDeleteTask(id, ok) ==
    /\ app = "TaskManager"
    /\ IF ~IsArray(tasks)
       THEN \* this.tasks.filter raises a TypeError
            /\ ok
            /\ lastOp' = Log("deleteTask", "threw", "undefined")
            /\ UNCHANGED <<tasks, stored, taskList, failures>>
       ELSE LET m == SelectSeq(tasks.items, LAMBDA t : t.id # id)
                s == SaveTasks(stored, m, ok)
                r == TmRefresh(m, currentFilter)
            IN  /\ tasks' = Arr(r.items)
                /\ stored' = s.stored
                /\ taskList' = r.list
                /\ failures' = failures + (IF s.failed THEN 1 ELSE 0)
                /\ lastOp' = Done("deleteTask",
                                  IF Find(tasks.items, id) = 0 THEN "absent" ELSE "ok",
                                  "undefined", s, <<"Task deleted">>, r, m)
    /\ UNCHANGED <<app, second, now, currentView, currentFilter, currentSort, adds>>

\* the message `Cleared ${completedCount} completed tasks`
ClearedNote(n) == "Cleared " \o ToString(n) \o " completed tasks"

\* clearCompleted(); the method has no return statement
TmClearCompleted(ok) ==
    /\ app = "TaskManager"
    /\ IF ~IsArray(tasks)
       THEN \* this.tasks.filter raises a TypeError
            /\ ok
            /\ lastOp' = Log("clearCompleted", "threw", "undefined")
            /\ UNCHANGED <<tasks, stored, taskList, failures>>
       ELSE LET completedCount == Len(SelectSeq(tasks.items, IsCompleted))
                m == SelectSeq(tasks.items, IsActive)
                s == SaveTasks(stored, m, ok)
                r == TmRefresh(m, currentFilter)
            IN  /\ tasks' = Arr(r.items)
                /\ stored' = s.stored
                /\ taskList' = r.list
                /\ failures' = failures + (IF s.failed THEN 1 ELSE 0)
                /\ lastOp' = Done("clearCompleted", "ok", "undefined", s,
                                  <<ClearedNote(completedCount)>>, r, m)
    /\ UNCHANGED <<app, second, now, currentView, currentFilter, currentSort, adds>>

\* a click on a .filter-btn: setFilter(filter)
TmSetFilter(filter) ==
    /\ app = "TaskManager"
    /\ currentFilter' = filter
    /\ IF ~IsArray(tasks)
       THEN \* render raises a TypeError
            /\ lastOp' = Log("setFilter", "threw", "undefined")
            /\ UNCHANGED <<tasks, taskList>>
       ELSE LET r == TmRender(tasks.items, filter)
            IN  /\ tasks' = Arr(r.items)
                /\ taskList' = r.list
                /\ lastOp' = [Log("setFilter", "ok", "undefined") EXCEPT
                                 !.rendered = TRUE, !.pre = tasks.items, !.same = r.same]
    /\ UNCHANGED <<app, second, stored, now, currentView, currentSort, adds, failures>>

----------------------------------------------------------------------------
(* The specifications *)

\* the methods of FlowTaskPro that change the collection, on a storage
\* whose writes succeed as oks says
ProMutate(oks) ==
    \/ \E text \in ProTexts, dueDate \in DueDates, ok \in oks :
          ProAddTask(text, "medium", dueDate, ok)
    \/ \E id \in Ids, ok \in oks : ProToggleTask(id, ok)
    \/ \E id \in Ids, ok \in oks : ProDeleteTask(id, ok)

\* the methods of TaskManager that change the collection
TmMutate(texts, oks) ==
    \/ \E text \in texts, ok \in oks : TmAddTask(text, ok)
    \/ \E id \in Ids, ok \in oks : TmToggleTask(id, ok)
    \/ \E id \in Ids, text \in texts, ok \in oks : TmEditTask(id, text, ok)
    \/ \E id \in Ids, ok \in oks : TmDeleteTask(id, ok)
    \/ \E ok \in oks : TmClearCompleted(ok)

\* either program, driven by the events its source handles, on a storage
\* that takes every write
Next ==
    \/ ProMutate(Sound)
    \/ \E viewName \in Views : ShowView(viewName)
    \/ TmMutate(Texts, Sound)
    \/ \E filter \in TmFilters : TmSetFilter(filter)
    \/ Reload

Spec == Init /\ [][Next]_vars

\* either program on a storage whose writes can fail
NextQuota ==
    \/ ProMutate(Full)
    \/ TmMutate(ProTexts, Full)

SpecQuota == Init /\ [][NextQuota]_vars

\* FlowTaskPro with the filter and sort controls of its tasks view
NextControls ==
    \/ \E text \in ProTexts, ok \in Sound : ProAddTask(text, "low", NullDate, ok)
    \/ \E id \in Ids, ok \in Sound : ProToggleTask(id, ok)
    \/ \E id \in Ids, ok \in Sound : ProDeleteTask(id, ok)
    \/ \E viewName \in Views : ShowView(viewName)
    \/ \E filter \in ProFilters : ProSetFilter(filter)
    \/ \E sort \in Sorts : ProSetSort(sort)

SpecControls == InitOf("FlowTaskPro") /\ [][NextControls]_vars

----------------------------------------------------------------------------
(* getFilteredTasks and sortTasks as functions: called once on a           *)
(* collection of any tasks the program can hold                            *)

\* the modes getFilteredTasks is called with: the known ones and another
PureFilters == ProFilters \cup {"other"}

\* the tasks a collection can hold, but for their place in it
TaskKinds(a) ==
    IF a = "FlowTaskPro"
    THEN { [ProNewTask(<<"b">>, p, NullDate, "Inbox", t, 0) EXCEPT !.completed = c] :
             p \in Priorities, t \in StartTime..EndTime, c \in BOOLEAN }
    ELSE { [TmNewTask(<<"b">>, t, 0) EXCEPT !.completed = c] :
             t \in StartTime..EndTime, c \in BOOLEAN }

\* the collections of at most PureLen tasks
Collections(a) ==
    { [i \in DOMAIN k |-> [k[i] EXCEPT !.nth = i]] :
        k \in UNION { [1..n -> TaskKinds(a)] : n \in 0..PureLen } }

InitPure ==
    /\ app \in Apps
    /\ \E items \in Collections(app) : tasks = Arr(items)
    /\ stored = Absent
    /\ now = EndTime
    /\ currentView = "tasks"
    /\ currentFilter = "all"
    /\ currentSort = "newest"
    /\ taskList = <<>>
    /\ adds = 0
    /\ failures = 0
    /\ lastOp = Log("none", "ok", "undefined")
    /\ second = NoSecond

\* this.currentFilter = filter; taskList = this.getFilteredTasks()
GetFilteredTasks(filter) ==
    /\ lastOp.op = "none"
    /\ currentFilter' = filter
    /\ LET f == IF app = "FlowTaskPro"
                THEN ProGetFilteredTasks(tasks.items, filter)
                ELSE TmGetFilteredTasks(tasks.items, filter)
       IN  /\ taskList' = f.items
           /\ lastOp' = [Log("getFilteredTasks", "ok", "array") EXCEPT
                            !.pre = tasks.items, !.same = f.same]
    /\ UNCHANGED <<app, second, tasks, stored, now, currentView, currentSort, adds, failures>>

\* this.currentSort = sort; taskList = this.sortTasks(this.tasks): sort()
\* sorts the array it is given in place and returns it
CallSortTasks(sort) ==
    /\ app = "FlowTaskPro"
    /\ lastOp.op = "none"
    /\ currentSort' = sort
    /\ LET sorted == SortTasks(tasks.items, sort)
       IN  /\ tasks' = Arr(sorted)
           /\ taskList' = sorted
           /\ lastOp' = [Log("sortTasks", "ok", "array") EXCEPT
                            !.pre = tasks.items, !.same = TRUE]
    /\ UNCHANGED <<app, second, stored, now, currentView, currentFilter, adds, failures>>

NextPure ==
    \/ \E filter \in PureFilters : GetFilteredTasks(filter)
    \/ \E sort \in Sorts : CallSortTasks(sort)

SpecPure == InitPure /\ [][NextPure]_vars

----------------------------------------------------------------------------
(* The page of TaskManager.  Its DOMContentLoaded handler runs             *)
(* `new TaskManager()` and later `window.taskManager = new TaskManager()`: *)
(* two stores, each with its own this.tasks, and each constructor's        *)
(* bindEvents adds listeners to the same elements.  The listeners of an    *)
(* element run in the order they were added: the first store's, then the   *)
(* second's.  tasks and currentFilter are the first store's.               *)

\* what a method of a store did: its this.tasks after it, the stored item,
\* the writes, and what it rendered and notified
Did(items, item, writes, rendered, list, notes, returned) ==
    [items |-> items, stored |-> item, writes |-> writes, rendered |-> rendered,
     list |-> list, notes |-> notes, returned |-> returned]

\* addTask(text) of the store whose collection is items
StoreAddTask(items, filter, item, text, t, n) ==
    LET v == TmValidateTask(text)
    IN  IF ~v.ok
        THEN Did(items, item, 0, FALSE, <<>>, v.notes, "false")
        ELSE LET m == Unshift(items, TmNewTask(text, t, n))
                 s == SaveTasks(item, m, TRUE)
                 r == TmRefresh(m, filter)
             IN  Did(r.items, s.stored, 1, TRUE, r.list,
                     s.notes \o <<"Task added successfully!">>, "true")

\* toggleTask(id) of a store
StoreToggleTask(items, filter, item, id) ==
    LET i == Find(items, id)
    IN  IF i = 0
        THEN Did(items, item, 0, FALSE, <<>>, <<>>, "undefined")
        ELSE LET m == [items EXCEPT ![i].completed = ~@]
                 s == SaveTasks(item, m, TRUE)
                 r == TmRefresh(m, filter)
             IN  Did(r.items, s.stored, 1, TRUE, r.list, s.notes, "undefined")

\* deleteTask(id) of a store
StoreDeleteTask(items, filter, item, id) ==
    LET m == SelectSeq(items, LAMBDA t : t.id # id)
        s == SaveTasks(item, m, TRUE)
        r == TmRefresh(m, filter)
    IN  Did(r.items, s.stored, 1, TRUE, r.list,
            s.notes \o <<"Task deleted">>, "undefined")

\* clearCompleted() of a store
StoreClearCompleted(items, filter, item) ==
    LET completedCount == Len(SelectSeq(items, IsCompleted))
        m == SelectSeq(items, IsActive)
        s == SaveTasks(item, m, TRUE)
        r == TmRefresh(m, filter)
    IN  Did(r.items, s.stored, 1, TRUE, r.list,
            s.notes \o <<ClearedNote(completedCount)>>, "undefined")

\* the log of a page event handled by the methods d1 (first store) and d2
\* (second store); a store whose listener did not run has done nothing
PageLog(op, result, d1, d2) ==
    [Log(op, result, "undefined") EXCEPT
        !.writes = d1.writes + d2.writes,
        !.notes = d1.notes \o d2.notes,
        !.rendered = d1.rendered \/ d2.rendered]

\* a store whose listener did not run
Idle(items, item) == Did(items, item, 0, FALSE, <<>>, <<>>, "undefined")

\* what the page shows and holds after the two stores did d1 and then d2
\* (filter2: the second store's currentFilter after the event)
PageAfter(d1, d2, filter2) ==
    /\ tasks' = Arr(d1.items)
    /\ stored' = d2.stored
    /\ taskList' = IF d2.rendered THEN d2.list
                   ELSE IF d1.rendered THEN d1.list ELSE taskList
    /\ second' = Store2(d2.items, filter2,
                        IF d2.rendered THEN TRUE
                        ELSE IF d1.rendered THEN FALSE ELSE second.shown,
                        d2.writes > 0)

\* the stored items from which loadTasks gives an array; on the others the
\* first constructor raises and the page's handler ends before the second
LoadableItems == { item \in ForeignItems : IsArray(TmLoadTasks(item).value) }

\* DOMContentLoaded: the first store is constructed and renders, then the
\* second one, whose render replaces the elements of #taskList
LoadPage(item) ==
    LET c1 == TmConstruct(item)
        c2 == TmConstruct(item)
    IN  /\ tasks = c1.tasks
        /\ currentFilter = "all"
        /\ second = Store2(c2.tasks.items, "all", TRUE, FALSE)
        /\ taskList = c2.list
        /\ lastOp = ConstructLog(c2)

InitPage ==
    /\ app = "TaskManager"
    /\ stored \in LoadableItems
    /\ LoadPage(stored)
    /\ now = StartTime
    /\ currentView = "dashboard"
    /\ currentSort = "newest"
    /\ adds = 0
    /\ failures = 0

\* a click on #addTaskBtn (or Enter in #taskInput) with text in the input:
\* handleAddTask of the first store, which empties the input when its
\* addTask returns true, then handleAddTask of the second store, which
\* reads the input again
AddClick(text) ==
    /\ app = "TaskManager"
    /\ \E t \in After(now) :
         LET d1    == StoreAddTask(tasks.items, currentFilter, stored, text, t, adds + 1)
             added == d1.returned = "true"
             input == IF added THEN <<>> ELSE text
             d2    == StoreAddTask(second.tasks, second.currentFilter, d1.stored,
                                   input, t, adds + 2)
         IN  /\ added => adds < MaxAdds
             /\ now' = IF added THEN t ELSE now
             /\ adds' = adds + (IF added THEN 1 ELSE 0)
                              + (IF d2.returned = "true" THEN 1 ELSE 0)
             /\ PageAfter(d1, d2, second.currentFilter)
             /\ lastOp' = PageLog("addClick", IF added THEN "ok" ELSE "invalid", d1, d2)
    /\ UNCHANGED <<app, currentView, currentFilter, currentSort, failures>>

\* Ctrl+Delete: the keydown listener of the first store calls its
\* clearCompleted, then that of the second store calls its own
CtrlDelete ==
    /\ app = "TaskManager"
    /\ LET d1 == StoreClearCompleted(tasks.items, currentFilter, stored)
           d2 == StoreClearCompleted(second.tasks, second.currentFilter, d1.stored)
       IN  /\ PageAfter(d1, d2, second.currentFilter)
           /\ lastOp' = PageLog("ctrlDelete", "ok", d1, d2)
    /\ UNCHANGED <<app, now, currentView, currentFilter, currentSort, adds, failures>>

\* a click on a .filter-btn: setFilter of the first store, then of the
\* second
FilterClick(filter) ==
    /\ app = "TaskManager"
    /\ currentFilter' = filter
    /\ LET r1 == TmRender(tasks.items, filter)
           r2 == TmRender(second.tasks, filter)
           d1 == Did(r1.items, stored, 0, TRUE, r1.list, <<>>, "undefined")
           d2 == Did(r2.items, stored, 0, TRUE, r2.list, <<>>, "undefined")
       IN  /\ PageAfter(d1, d2, filter)
           /\ lastOp' = PageLog("filterClick", "ok", d1, d2)
    /\ UNCHANGED <<app, now, currentView, currentSort, adds, failures>>

\* a click on the 'Clear Completed' button: window.taskManager.clearCompleted()
ClearClick ==
    /\ app = "TaskManager"
    /\ LET d1 == Idle(tasks.items, stored)
           d2 == StoreClearCompleted(second.tasks, second.currentFilter, stored)
       IN  /\ PageAfter(d1, d2, second.currentFilter)
           /\ lastOp' = PageLog("clearClick", "ok", d1, d2)
    /\ UNCHANGED <<app, now, currentView, currentFilter, currentSort, adds, failures>>

\* a click on the checkbox of the i-th element of #taskList: toggleTask of
\* the store that created the element
ToggleClick(i) ==
    /\ app = "TaskManager"
    /\ i \in 1..Len(taskList)
    /\ LET id == taskList[i].id
           d1 == IF second.shown THEN Idle(tasks.items, stored)
                 ELSE StoreToggleTask(tasks.items, currentFilter, stored, id)
           d2 == IF second.shown
                 THEN StoreToggleTask(second.tasks, second.currentFilter, stored, id)
                 ELSE Idle(second.tasks, stored)
       IN  /\ PageAfter(d1, d2, second.currentFilter)
           /\ lastOp' = PageLog("toggleClick", "ok", d1, d2)
    /\ UNCHANGED <<app, now, currentView, currentFilter, currentSort, adds, failures>>

\* a click on the delete button of the i-th element of #taskList:
\* deleteTask of the store that created the element
DeleteClick(i) ==
    /\ app = "TaskManager"
    /\ i \in 1..Len(taskList)
    /\ LET id == taskList[i].id
           d1 == IF second.shown THEN Idle(tasks.items, stored)
                 ELSE StoreDeleteTask(tasks.items, currentFilter, stored, id)
           d2 == IF second.shown
                 THEN StoreDeleteTask(second.tasks, second.currentFilter, stored, id)
                 ELSE Idle(second.tasks, stored)
       IN  /\ PageAfter(d1, d2, second.currentFilter)
           /\ lastOp' = PageLog("deleteClick", "ok", d1, d2)
    /\ UNCHANGED <<app, now, currentView, currentFilter, currentSort, adds, failures>>

\* the page is loaded again on the stored item
ReloadPage ==
    /\ app = "TaskManager"
    /\ LET c1 == TmConstruct(stored)
           c2 == TmConstruct(stored)
       IN  /\ tasks' = c1.tasks
           /\ currentFilter' = "all"
           /\ second' = Store2(c2.tasks.items, "all", TRUE, FALSE)
           /\ taskList' = c2.list
           /\ lastOp' = ConstructLog(c2)
    /\ UNCHANGED <<app, stored, now, currentView, currentSort, adds, failures>>

NextPage ==
    \/ \E text \in ProTexts : AddClick(text)
    \/ CtrlDelete
    \/ \E filter \in TmFilters : FilterClick(filter)
    \/ ClearClick
    \/ \E i \in 1..MaxAdds : ToggleClick(i)
    \/ \E i \in 1..MaxAdds : DeleteClick(i)
    \/ ReloadPage

SpecPage == InitPage /\ [][NextPage]_vars

----------------------------------------------------------------------------
(* The properties *)

Mutators == {"addTask", "toggleTask", "editTask", "deleteTask", "clearCompleted"}

\* the handler gave this message to showNotification
Notified(log, message) == \E i \in DOMAIN log.notes : log.notes[i] = message

\* the text is empty or all white space
Blank(text) == \A i \in DOMAIN text : text[i] \in WhiteSpace

\* C1: in every reachable state no two tasks of the collection have the
\* same id, also when two adds happen at the same clock reading.
\* (Refuted: two addTask calls in the same millisecond give both tasks the
\* id Date.now().toString().)
UniqueIds ==
    IsArray(tasks) =>
        \A i, j \in 1..Len(tasks.items) :
            i # j => tasks.items[i].id # tasks.items[j].id

\* C2: computing the projection leaves the collection as it was when the
\* projection was asked for, and what it returns is a new array, not
\* this.tasks itself.
\* (Refuted: with the filter 'all' getFilteredTasks returns this.tasks, and
\* sortTasks sorts that array in place.)
ProjectionIsPure ==
    lastOp.rendered => (tasks.items = lastOp.pre /\ ~lastOp.same)

\* C3: the collection is in insertion order, newest first: a task that
\* addTask created stands before every task that entered the collection
\* before it, and addTask leaves the new task at index 0.
\* (Refuted: under the sort 'oldest' or 'priority' renderTasks reorders
\* this.tasks.)
NewestFirst ==
    IsArray(tasks) =>
        /\ \A i, j \in 1..Len(tasks.items) :
              (tasks.items[i].nth >= 1 /\ tasks.items[i].nth > tasks.items[j].nth)
                  => i < j
        /\ (lastOp.op = "addTask" /\ lastOp.result = "ok")
              => tasks.items[1].nth = adds

\* C4: when every storage write has succeeded and the program has written
\* the collection, loadTasks on the stored item returns the in-memory
\* collection: the same tasks in the same order with the same fields.
\* (Refuted: a render that reorders this.tasks is not followed by a save.)
Durable ==
    (app = "FlowTaskPro" /\ failures = 0 /\ stored.kind = "array")
        => ProLoadTasks(stored, now, now).value = tasks

\* C5: whenever the task list is on show (TaskManager always, FlowTaskPro
\* in a view other than the dashboard) it is the filter+sort projection of
\* the current collection.
\* (Refuted: a mutation made in the dashboard view renders the dashboard
\* only, and showView renders nothing.)
ShownListIsProjection ==
    IsArray(tasks) =>
        /\ app = "TaskManager"
              => taskList = TmRender(tasks.items, currentFilter).list
        /\ (app = "FlowTaskPro" /\ currentView # "dashboard")
              => taskList = ProRenderTasks(tasks.items, currentFilter, currentSort).list

\* C6: a mutating operation that succeeded (add, toggle or edit of a present
\* id, delete, clearCompleted) wrote the collection to storage exactly once,
\* so that the stored item is the collection it left; an add or edit with
\* invalid text and a toggle or edit of an absent id wrote nothing.
OneWritePerMutation ==
    /\ (lastOp.op \in Mutators /\ lastOp.result = "ok")
          => (lastOp.writes = 1 /\ stored = Stringify(tasks.items))
    /\ (lastOp.op \in {"addTask", "editTask", "toggleTask"}
          /\ lastOp.result \in {"invalid", "absent"})
          => lastOp.writes = 0

\* a batch clearCompleted that removed a task wrote once
OneWriteSeen ==
    /\ lastOp.op = "clearCompleted"
    /\ lastOp.notes = <<ClearedNote(1)>>
    /\ lastOp.writes = 1
    /\ Len(tasks.items) > 0

\* what a mutating operation does to the collection old, giving new
MutationKept(op, old, new) ==
    CASE op = "addTask" ->
            /\ Len(new) = Len(old) + 1
            /\ Tail(new) = old
            /\ ~new[1].completed
            /\ new[1].text \in {Trim(text) : text \in Texts} \ {<<>>}
      [] op = "toggleTask" ->
            \E i \in 1..Len(old) : new = [old EXCEPT ![i].completed = ~@]
      [] op = "editTask" ->
            \E i \in 1..Len(old), text \in Texts :
                Trim(text) # <<>> /\ new = [old EXCEPT ![i].text = Trim(text)]
      [] op = "deleteTask" ->
            \E id \in Ids : new = SelectSeq(old, LAMBDA t : t.id # id)
      [] op = "clearCompleted" -> new = SelectSeq(old, IsActive)
      [] OTHER -> FALSE

LoadGivesCollection ==
    /\ lastOp.result # "threw"
    /\ IsArray(tasks)
    /\ (lastOp.op = "construct" /\ stored.kind \in {"garbage", "null", "object"})
          => tasks.items = <<>>

\* the texts that are blank or longer than 100 characters after trimming,
\* and those of exactly 100 characters after trimming
InvalidTexts == {text \in Texts : Blank(text) \/ Len(Trim(text)) > MaxTextLen}
BoundTexts   == {text \in Texts : Len(Trim(text)) = MaxTextLen}

TextsTrimmed ==
    /\ IsArray(tasks) =>
          \A i \in 1..Len(tasks.items) :
              ~Blank(tasks.items[i].text)
                  /\ Trim(tasks.items[i].text) = tasks.items[i].text
    /\ stored.kind = "array" =>
          \A i \in 1..Len(stored.elems) :
              LET text == ParseTask(stored.elems[i]).text
              IN  ~Blank(text) /\ Trim(text) = text

\* an edit stored the text typed as " b " without its white space
TrimmedTextSeen ==
    /\ lastOp.op = "editTask"
    /\ lastOp.result = "ok"
    /\ \E i \in 1..Len(tasks.items) : tasks.items[i].text = <<"b">>
    /\ \E i \in 1..Len(tasks.items) : Len(tasks.items[i].text) = MaxTextLen

\* a task of the collection has this id
HasId(items, id) == \E i \in 1..Len(items) : items[i].id = id

\* C11: a toggle of an id that is present flips the completed flag of the
\* first task with that id and changes nothing else of the collection: no
\* other task, no other field, not the order.  Two toggles of one id
\* therefore give the flag its first value again.
\* (Refuted: toggleTask ends with renderTasks, which sorts this.tasks in
\* place when the collection is not in the order of currentSort.)
ToggleFlipsOneFlag ==
    [][ \A id \in Ids :
          ( /\ IsArray(tasks)
            /\ HasId(tasks.items, id)
            /\ ProToggleTask(id, TRUE) \/ TmToggleTask(id, TRUE) )
          => \E i \in 1..Len(tasks.items) :
                /\ tasks.items[i].id = id
                /\ \A j \in 1..(i - 1) : tasks.items[j].id # id
                /\ tasks'.items = [tasks.items EXCEPT ![i].completed = ~@]
      ]_vars

\* C12: a toggle or an edit of an id that no task has raises nothing and
\* leaves the collection, the stored item and the list on show unchanged.
AbsentIdIsNoOp ==
    [][ \A id \in Ids :
          ( /\ IsArray(tasks)
            /\ ~HasId(tasks.items, id)
            /\ \/ ProToggleTask(id, TRUE)
               \/ TmToggleTask(id, TRUE)
               \/ \E text \in ProTexts : TmEditTask(id, text, TRUE) )
          => ( /\ tasks' = tasks
               /\ stored' = stored
               /\ taskList' = taskList
               /\ lastOp'.result # "threw" )
      ]_vars

\* an edit with a valid text of an id that no task of a non-empty
\* collection has
AbsentIdSeen ==
    /\ lastOp.op = "editTask"
    /\ lastOp.result = "absent"
    /\ IsArray(tasks)
    /\ Len(tasks.items) > 0

\* C13: delete(id) removes exactly the tasks with that id and keeps the
\* others in their order, raises nothing, and leaves the collection as it is
\* when no task has the id (a second delete, or an id never present).
\* (Refuted: deleteTask ends with renderTasks, which sorts this.tasks in
\* place when the collection is not in the order of currentSort.)
DeleteRemovesExactlyId ==
    [][ \A id \in Ids :
          ( /\ IsArray(tasks)
            /\ ProDeleteTask(id, TRUE) \/ TmDeleteTask(id, TRUE) )
          => ( /\ tasks'.items = SelectSeq(tasks.items, LAMBDA t : t.id # id)
               /\ lastOp'.result # "threw"
               /\ ~HasId(tasks.items, id) => tasks' = tasks )
      ]_vars

\* C14: clearCompleted leaves no completed task, writes once, and returns
\* the number of tasks it removed (the number its notification names).
\* (Refuted: clearCompleted has no return statement.)
ClearReturnsCount ==
    (lastOp.op = "clearCompleted" /\ lastOp.result = "ok") =>
        /\ \A i \in 1..Len(tasks.items) : ~tasks.items[i].completed
        /\ lastOp.writes = 1
        /\ \E n \in 0..(MaxAdds + 2) :
              /\ Notified(lastOp, ClearedNote(n))
              /\ lastOp.returned = ToString(n)

\* the tasks of a sequence, as a set
Range(s) == {s[i] : i \in 1..Len(s)}

\* the sequence keeps the order its tasks had in the collection they were
\* taken from (nth is the place of a task in that collection)
InCollectionOrder(s) == \A i, j \in 1..Len(s) : i < j => s[i].nth < s[j].nth

\* the sequence holds exactly the tasks of the set, each once, in
\* collection order
ExactlyInOrder(s, set) ==
    /\ Range(s) = set
    /\ Len(s) = Cardinality(set)
    /\ InCollectionOrder(s)

\* C15: getFilteredTasks with 'active' returns exactly the tasks of the
\* collection that are not completed and with 'completed' exactly those that
\* are, both in collection order; the two results share no task and together
\* hold every task; 'high' returns exactly the tasks of priority high (in
\* FlowTaskPro; TaskManager has no priorities and no such mode); 'all' and
\* any mode the program does not know return every task.
FilterIsExact ==
    /\ lastOp.op = "getFilteredTasks" =>
          LET all == Range(lastOp.pre)
          IN  CASE currentFilter = "active" ->
                     ExactlyInOrder(taskList, {t \in all : t.completed = FALSE})
                [] currentFilter = "completed" ->
                     ExactlyInOrder(taskList, {t \in all : t.completed = TRUE})
                [] currentFilter = "high" /\ app = "FlowTaskPro" ->
                     ExactlyInOrder(taskList, {t \in all : t.priority = "high"})
                [] OTHER -> taskList = lastOp.pre
    /\ LET active    == IF app = "FlowTaskPro"
                        THEN ProGetFilteredTasks(tasks.items, "active").items
                        ELSE TmGetFilteredTasks(tasks.items, "active").items
           completed == IF app = "FlowTaskPro"
                        THEN ProGetFilteredTasks(tasks.items, "completed").items
                        ELSE TmGetFilteredTasks(tasks.items, "completed").items
       IN  /\ Range(active) \cap Range(completed) = {}
           /\ Range(active) \cup Range(completed) = Range(tasks.items)
           /\ Len(active) + Len(completed) = Len(tasks.items)

\* the 'completed' filter has run on a collection that holds completed and
\* active tasks, some of them of high priority and some not
FilterSeen ==
    /\ lastOp.op = "getFilteredTasks"
    /\ app = "FlowTaskPro"
    /\ currentFilter = "completed"
    /\ Len(lastOp.pre) = PureLen
    /\ Len(taskList) = 2
    /\ \E i \in 1..Len(taskList) : taskList[i].priority # "high"

\* C16: sortTasks with 'priority' returns a permutation of its input in
\* which every high task precedes every medium one and every medium one
\* every low one, tasks of equal priority keeping their input order; with
\* 'newest' / 'oldest' it orders by createdAt, descending / ascending; with
\* any other key it returns the input order unchanged.
SortIsStableOrder ==
    lastOp.op = "sortTasks" =>
        /\ Range(taskList) = Range(lastOp.pre)
        /\ Len(taskList) = Len(lastOp.pre)
        /\ CASE currentSort = "priority" ->
                   \A i, j \in 1..Len(taskList) : i < j =>
                      LET p == PriorityOrder(taskList[i].priority)
                          q == PriorityOrder(taskList[j].priority)
                      IN  /\ p >= q
                          /\ p = q => taskList[i].nth < taskList[j].nth
              [] currentSort = "newest" ->
                   \A i, j \in 1..Len(taskList) : i < j =>
                      taskList[i].createdAt >= taskList[j].createdAt
              [] currentSort = "oldest" ->
                   \A i, j \in 1..Len(taskList) : i < j =>
                      taskList[i].createdAt <= taskList[j].createdAt
              [] OTHER -> taskList = lastOp.pre

\* the 'priority' sort has moved a high task in front of two low ones
PrioritySortSeen ==
    /\ lastOp.op = "sortTasks"
    /\ currentSort = "priority"
    /\ Len(lastOp.pre) = PureLen
    /\ lastOp.pre[1].priority = "low"
    /\ lastOp.pre[2].priority = "low"
    /\ lastOp.pre[Len(lastOp.pre)].priority = "high"
    /\ taskList # lastOp.pre

\* the events of the page of TaskManager
PageEvents == {"addClick", "ctrlDelete", "filterClick", "clearClick",
               "toggleClick", "deleteClick"}

\* C17: there is one logical writer: every event of the page causes at most
\* one write of the stored item, and no second store that holds a copy of
\* its own, different from the collection of the first, writes that item.
\* (Refuted: the page constructs two TaskManager stores on the same
\* elements and the same key.)
OneLogicalWriter ==
    lastOp.op \in PageEvents =>
        /\ lastOp.writes <= 1
        /\ second.wrote => second.tasks = tasks.items

====
